---- MODULE Spec2Model ----
(***************************************************************************)
(* A model of the cheap-clone crate (src/src/lib.rs).                      *)
(*                                                                         *)
(* The crate is one trait, CheapClone: Clone, with a defaulted method      *)
(* cheap_clone(&self) -> Self { self.clone() }, and a list of impls.  The  *)
(* model has two layers:                                                   *)
(*   - the type layer: which types bear the capability under a given set   *)
(*     of enabled cargo features (impl resolution, Bears);                 *)
(*   - the value layer: what cheap_clone does to a value and to the heap   *)
(*     (reference counts, box allocations) of a running program.           *)
(***************************************************************************)
EXTENDS Integers, Sequences, FiniteSets, TLC

VARIABLES features, heap, slots, last, prev, query

vars == <<features, heap, slots, last, prev, query>>

(***************************************************************************)
(* Bounds of the model.                                                    *)
(***************************************************************************)
MaxSlots == 3
MaxAddr == 3
MaxSize == 3
TypeDepth == 2
MaxLen == 1

Slot == 1..MaxSlots
Addr == 1..MaxAddr

(***************************************************************************)
(* Cargo features that gate impls (#[cfg(feature = ...)]).                 *)
(***************************************************************************)
Features == {"alloc", "std", "either"}

(***************************************************************************)
(* Types.  A type is a tuple whose head names the type constructor:        *)
(*   <<"u8">>, <<"Rc", T>>, <<"Option", T>>, <<"Result", T, E>>,           *)
(*   <<"Either", L, R>>, <<"Array", T, N>>, ...                            *)
(***************************************************************************)
\* The types listed in the second impl_cheap_clone_for_copy! invocation.
PrimTypes ==
  { "bool", "char", "f32", "f64",
    "i8", "i16", "i32", "i64", "i128", "isize",
    "u8", "u16", "u32", "u64", "u128", "usize",
    "NonZeroI8", "NonZeroI16", "NonZeroI32", "NonZeroI64", "NonZeroI128",
    "NonZeroIsize",
    "NonZeroU8", "NonZeroU16", "NonZeroU32", "NonZeroU64", "NonZeroU128",
    "NonZeroUsize",
    "str" }

\* The types listed in the impl_cheap_clone_for_copy! invocation of mod s.
NetTypes ==
  { "IpAddr", "Ipv4Addr", "Ipv6Addr", "SocketAddr", "SocketAddrV4",
    "SocketAddrV6" }

FloatTypes == {"f32", "f64"}

\* Types for which the crate declares no impl: a growable sequence, an owned
\* text buffer (the two the trait's documentation rules out), a user type that
\* is Clone only, and two Copy types (the unit type, a shared reference &u8).
VecTy == <<"Vec">>
StringTy == <<"String">>
CustomTy == <<"Custom">>
UnitTy == <<"Unit">>
RefTy == <<"RefU8">>
UndeclaredLeaves == {VecTy, StringTy, CustomTy, UnitTy, RefTy}

Ctor(t) == t[1]

RECURSIVE IsCopy(_)
\* Whether a type is Copy (bitwise copyable), as the language defines it.
IsCopy(t) ==
  CASE Ctor(t) \in PrimTypes \cup NetTypes -> TRUE
    [] t \in {UnitTy, RefTy} -> TRUE
    [] Ctor(t) \in {"Option", "Pin", "Array"} -> IsCopy(t[2])
    [] Ctor(t) \in {"Result", "Either"} -> IsCopy(t[2]) /\ IsCopy(t[3])
    [] OTHER -> FALSE

RECURSIVE IsClone(_)
\* Whether a type is Clone, the supertrait of CheapClone.
IsClone(t) ==
  CASE Ctor(t) \in PrimTypes \cup NetTypes -> TRUE
    [] t \in UndeclaredLeaves -> TRUE
    [] Ctor(t) \in {"Rc", "Arc"} -> TRUE
    [] Ctor(t) \in {"Option", "Pin", "Array", "Box"} -> IsClone(t[2])
    [] Ctor(t) \in {"Result", "Either"} -> IsClone(t[2]) /\ IsClone(t[3])
    [] OTHER -> FALSE

RECURSIVE Bears(_, _)

\* impl_cheap_clone_for_copy! { bool, char, ..., &str }
PrimImpl(f, t) == Ctor(t) \in PrimTypes

\* #[cfg(feature = "std")] impl_cheap_clone_for_copy!(std::net::IpAddr, ...)
NetImpl(f, t) == "std" \in f /\ Ctor(t) \in NetTypes

\* #[cfg(feature = "alloc")] impl<T: ?Sized> CheapClone for Rc<T> {}
RcImpl(f, t) == "alloc" \in f /\ Ctor(t) = "Rc"

\* #[cfg(feature = "alloc")] impl<T: ?Sized> CheapClone for Arc<T> {}
ArcImpl(f, t) == "alloc" \in f /\ Ctor(t) = "Arc"

\* #[cfg(feature = "alloc")] impl<T: ?Sized + CheapClone> CheapClone for Box<T> {}
BoxImpl(f, t) == "alloc" \in f /\ Ctor(t) = "Box" /\ Bears(f, t[2])

\* #[cfg(feature = "std")] impl<T: ?Sized + CheapClone> CheapClone for Pin<T> {}
PinImpl(f, t) == "std" \in f /\ Ctor(t) = "Pin" /\ Bears(f, t[2])

\* A bug: the bound on T left out.
OptionImplAny(f, t) == Ctor(t) = "Option"
\* impl<T: CheapClone> CheapClone for Option<T> {}
OptionImpl(f, t) == Ctor(t) = "Option" /\ Bears(f, t[2])

\* A bug: one capable parameter made to suffice.
ResultImplEither(f, t) ==
  Ctor(t) = "Result" /\ (Bears(f, t[2]) \/ Bears(f, t[3]))
\* impl<T: CheapClone, E: CheapClone> CheapClone for Result<T, E> {}
ResultImpl(f, t) == Ctor(t) = "Result" /\ Bears(f, t[2]) /\ Bears(f, t[3])

\* #[cfg(feature = "either")]
\* impl<L: CheapClone, R: CheapClone> CheapClone for either::Either<L, R> {}
EitherImpl(f, t) ==
  "either" \in f /\ Ctor(t) = "Either" /\ Bears(f, t[2]) /\ Bears(f, t[3])

\* A bug: the bound T: CheapClone in place of T: Copy.
ArrayImplByElem(f, t) == Ctor(t) = "Array" /\ Bears(f, t[2])
\* impl<T: Copy, const N: usize> CheapClone for [T; N]
ArrayImpl(f, t) == Ctor(t) = "Array" /\ IsCopy(t[2])

\* Impl resolution: a type bears the capability exactly when one of the
\* crate's impls applies to it under the enabled features.
Bears(f, t) ==
  \/ PrimImpl(f, t)
  \/ NetImpl(f, t)
  \/ RcImpl(f, t)
  \/ ArcImpl(f, t)
  \/ BoxImpl(f, t)
  \/ PinImpl(f, t)
  \/ OptionImpl(f, t)
  \/ ResultImpl(f, t)
  \/ EitherImpl(f, t)
  \/ ArrayImpl(f, t)

\* The impls that override cheap_clone with `*self`; every other impl has an
\* empty body and takes the trait's default.
HasCopyOverride(t) == Ctor(t) \in PrimTypes \cup NetTypes \cup {"Array"}


(***************************************************************************)
(* Values.                                                                 *)
(*   <<"lit", T, x>>   a value x of the primitive or address type T        *)
(*   <<"rc", a>>       an Rc handle to the heap cell a                     *)
(*   <<"arc", a>>      an Arc handle to the heap cell a                    *)
(*   <<"box", a>>      a Box owning the heap cell a                        *)
(*   <<"none">>, <<"some", v>>, <<"ok", v>>, <<"err", v>>,                 *)
(*   <<"left", v>>, <<"right", v>>, <<"pin", v>>, <<"arr", <<v1, ...>>>>   *)
(* Heap cells.                                                             *)
(*   <<"free">>                                                            *)
(*   <<"counted", strong, v>>    the allocation behind Rc / Arc handles    *)
(*   <<"boxed", v>>              the allocation owned by one Box           *)
(***************************************************************************)
Nil == <<"nil">>
Free == <<"free">>

\* Sample values of each primitive and address type.  Floats carry the
\* values on which IEEE equality and bitwise identity differ.
LitValues(n) ==
  CASE n \in FloatTypes -> {"+0.0", "-0.0", "1.5", "NaN"}
    [] n = "bool" -> {"false", "true"}
    [] n = "char" -> {"a", "z"}
    [] n = "str" -> {"", "abc"}
    [] n \in {"i8", "i16", "i32", "i64", "i128", "isize"} -> {"MIN", "0", "MAX"}
    [] n \in {"u8", "u16", "u32", "u64", "u128", "usize"} -> {"0", "MAX"}
    [] n \in NetTypes -> {"unspecified", "localhost"}
    [] OTHER -> {"1", "MAX"}

Lit(n, x) == <<"lit", n, x>>

FreeAddrs(h) == {a \in Addr : h[a] = Free}

Min(S) == CHOOSE x \in S : \A y \in S : x <= y

\* The allocator: first fit.  Addresses are identities only; nothing below
\* depends on which free cell is returned.
Alloc(h) == Min(FreeAddrs(h))

RECURSIVE NeedAlloc(_, _)
\* The number of fresh allocations that cloning v asks of the allocator.
NeedAlloc(h, v) ==
  CASE v[1] = "box" ->
         IF h[v[2]][1] = "boxed" THEN 1 + NeedAlloc(h, h[v[2]][2]) ELSE 1
    [] v[1] \in {"some", "ok", "err", "left", "right", "pin"} ->
         NeedAlloc(h, v[2])
    [] OTHER -> 0

\* A bug: a zero-initialised value in place of the receiver's bits.
CopyOutZeroed(h, v) ==
  <<h, IF v[1] = "lit" THEN Lit(v[2], "0") ELSE <<"arr", <<>>>>>>
\* `*self` on a Copy type: the bits of the receiver, nothing else touched.
CopyOut(h, v) == <<h, v>>

\* A bug: a clone that canonicalises the sign of zero.
LitCloneCanonical(h, v) ==
  <<h, IF v[3] = "-0.0" THEN Lit(v[2], "+0.0") ELSE v>>
\* Clone of a primitive (a Copy type): the same bits.
LitClone(h, v) == <<h, v>>

\* A bug: the handle copied without the count raised.
CountedCloneNoBump(h, v) == <<h, v>>
\* A bug: a handle already shared is cloned by copying the allocation.
CountedCloneCow(h, v) ==
  IF h[v[2]][2] = 1 \/ FreeAddrs(h) = {}
  THEN <<[h EXCEPT ![v[2]] = <<"counted", h[v[2]][2] + 1, h[v[2]][3]>>], v>>
  ELSE <<[h EXCEPT ![Alloc(h)] = <<"counted", 1, h[v[2]][3]>>], <<v[1], Alloc(h)>>>>
\* Rc::clone / Arc::clone: bump the strong count, return a handle to the
\* same allocation.
CountedClone(h, v) ==
  <<[h EXCEPT ![v[2]] = <<"counted", h[v[2]][2] + 1, h[v[2]][3]>>], v>>

RECURSIVE Clone(_, _)

\* A bug: the box's pointer copied, the allocation shared.
BoxCloneShared(h, v) == <<h, v>>
\* A bug: the contents moved out of the receiver into the new box.
BoxCloneTaking(h, v) ==
  LET a == Alloc(h)
      h1 == [h EXCEPT ![a] = <<"boxed", Nil>>]
      r == Clone(h1, h[v[2]][2])
  IN <<[r[1] EXCEPT ![a] = <<"boxed", r[2]>>, ![v[2]] = <<"boxed", Nil>>],
       <<"box", a>>>>
\* Box<T>::clone: a new allocation holding a clone of the contents.
BoxClone(h, v) ==
  LET a == Alloc(h)
      h1 == [h EXCEPT ![a] = <<"boxed", Nil>>]
      r == Clone(h1, h[v[2]][2])
  IN <<[r[1] EXCEPT ![a] = <<"boxed", r[2]>>], <<"box", a>>>>

\* A bug: the variant not kept.
VariantCloneFlipped(h, v) ==
  LET r == Clone(h, v[2])
  IN <<r[1], CASE v[1] = "some" -> <<"none">>
               [] v[1] = "ok" -> <<"err", r[2]>>
               [] v[1] = "err" -> <<"ok", r[2]>>
               [] v[1] = "left" -> <<"right", r[2]>>
               [] v[1] = "right" -> <<"left", r[2]>>
               [] OTHER -> <<v[1], r[2]>>>>
\* Clone of Option / Result / Either / Pin: the same variant around a clone
\* of what it holds.
VariantClone(h, v) ==
  LET r == Clone(h, v[2]) IN <<r[1], <<v[1], r[2]>>>>

\* Clone of [T; N] with T: Copy (the only arrays that bear the capability):
\* the elements cloned in order; they own nothing, so the heap is untouched.
ArrayClone(h, v) ==
  <<h, <<"arr", [i \in 1..Len(v[2]) |-> Clone(h, v[2][i])[2]]>>>>

\* Clone::clone, by the shape of the value.
Clone(h, v) ==
  CASE v[1] = "lit" -> LitClone(h, v)
    [] v[1] \in {"rc", "arc"} -> CountedClone(h, v)
    [] v[1] = "box" -> BoxClone(h, v)
    [] v[1] \in {"some", "ok", "err", "left", "right", "pin"} ->
         VariantClone(h, v)
    [] v[1] = "arr" -> ArrayClone(h, v)
    [] OTHER -> <<h, v>>

\* The trait's default method: fn cheap_clone(&self) -> Self { self.clone() }
default_cheap_clone(h, v) == Clone(h, v)

\* The macro's and the array impl's method:
\* fn cheap_clone(&self) -> Self { *self }
copy_cheap_clone(h, v) == CopyOut(h, v)

\* Method dispatch on the receiver's static type.
cheap_clone(t, h, v) ==
  IF HasCopyOverride(t)
  THEN copy_cheap_clone(h, v)
  ELSE default_cheap_clone(h, v)

RECURSIVE DropValue(_, _)
\* Dropping a value: a Box frees its cell after dropping the contents; the
\* last Rc / Arc handle frees the shared cell, any other one decrements.
DropValue(h, v) ==
  CASE v[1] = "box" ->
         IF h[v[2]][1] = "boxed"
         THEN [DropValue(h, h[v[2]][2]) EXCEPT ![v[2]] = Free]
         ELSE h
    [] v[1] \in {"rc", "arc"} ->
         IF h[v[2]][1] # "counted" THEN h
         ELSE IF h[v[2]][2] > 1
         THEN [h EXCEPT ![v[2]] = <<"counted", h[v[2]][2] - 1, h[v[2]][3]>>]
         ELSE [DropValue(h, h[v[2]][3]) EXCEPT ![v[2]] = Free]
    [] v[1] \in {"some", "ok", "err", "left", "right", "pin"} ->
         DropValue(h, v[2])
    [] OTHER -> h


(***************************************************************************)
(* A program that uses the crate: it owns values in a few local variables  *)
(* (slots), builds them, calls cheap_clone on them, writes through boxes   *)
(* and drops them.                                                         *)
(***************************************************************************)
Empty == [ty |-> Nil, val |-> Nil]

NoCall ==
  [op |-> "none", src |-> 0, dst |-> 0, ty |-> Nil, recv |-> Nil, res |-> Nil,
   pre |-> <<>>, preSlots |-> <<>>]

\* Literals the program writes.
ProgramLits == {Lit("u8", "0"), Lit("f64", "1.5"), Lit("f64", "NaN")}

RECURSIVE Depth(_)
Depth(t) ==
  IF Len(t) = 1 THEN 0
  ELSE IF Ctor(t) \in {"Result", "Either"}
  THEN 1 + (IF Depth(t[2]) >= Depth(t[3]) THEN Depth(t[2]) ELSE Depth(t[3]))
  ELSE 1 + Depth(t[2])

RECURSIVE SumSize(_)
\* The size of the live data: one per value, plus one per layer of wrapping.
SumSize(n) ==
  IF n = 0 THEN 0
  ELSE (IF slots[n] = Empty THEN 0 ELSE 1 + Depth(slots[n].ty)) + SumSize(n - 1)
LiveSize == SumSize(MaxSlots)

\* The program first builds its values, then uses them, then drops them:
\* nothing is built once the first call or write has run, and nothing is
\* called or written once the first value has been dropped.
Building == last.op = "none"
Using == last.op # "drop"

\* Local variables are anonymous: a new value takes the first unused one.
FirstEmpty(d) == slots[d] = Empty /\ \A e \in Slot : e < d => slots[e] # Empty

\* What the properties read of the last statement: for a call, the
\* receiver, the result and the state before it.
Record(op, s, d) ==
  [op |-> op, src |-> s, dst |-> d, ty |-> slots[s].ty, recv |-> slots[s].val,
   res |-> Nil, pre |-> heap, preSlots |-> slots]
Note(op, s) == [NoCall EXCEPT !.op = op, !.src = s]
\* The call before the last statement, when there was one.
Earlier ==
  IF last.op = "cheap_clone"
  THEN [last EXCEPT !.pre = <<>>, !.preSlots = <<>>]
  ELSE NoCall

Init ==
  /\ features = Features
  /\ heap = [a \in Addr |-> Free]
  /\ slots = [s \in Slot |-> Empty]
  /\ last = NoCall
  /\ prev = NoCall
  /\ query = Nil

\* let x = <literal>;
NewLit(s, v) ==
  /\ Building
  /\ FirstEmpty(s)
  /\ LiveSize < MaxSize
  /\ slots' = [slots EXCEPT ![s] = [ty |-> <<v[2]>>, val |-> v]]
  /\ last' = NoCall
  /\ prev' = NoCall
  /\ UNCHANGED <<features, heap, query>>

\* let x: Option<f64> = None;
NewNone(s) ==
  /\ Building
  /\ FirstEmpty(s)
  /\ LiveSize + 1 < MaxSize
  /\ slots' = [slots EXCEPT ![s] = [ty |-> <<"Option", <<"f64">>>>, val |-> <<"none">>]]
  /\ last' = NoCall
  /\ prev' = NoCall
  /\ UNCHANGED <<features, heap, query>>

\* let x = Some(x); / Ok(x) / Err(x) / Left(x) / Right(x) / Pin::new(x) / [x; n]
WrapInline(s, c, n) ==
  LET t == slots[s].ty
      v == slots[s].val
      o == <<"u8">>
      t2 == CASE c = "some" -> <<"Option", t>>
              [] c = "ok" -> <<"Result", t, o>>
              [] c = "err" -> <<"Result", o, t>>
              [] c = "left" -> <<"Either", t, o>>
              [] c = "right" -> <<"Either", o, t>>
              [] c = "pin" -> <<"Pin", t>>
              [] c = "arr" -> <<"Array", t, n>>
      v2 == IF c = "arr" THEN <<"arr", [i \in 1..n |-> v]>> ELSE <<c, v>>
  IN /\ Building
     /\ slots[s] # Empty
     /\ LiveSize < MaxSize
     /\ c = "pin" => Ctor(t) \in {"Rc", "Arc", "Box"}
     /\ c = "arr" => IsCopy(t)
     /\ c # "arr" => n = 0
     /\ slots' = [slots EXCEPT ![s] = [ty |-> t2, val |-> v2]]
     /\ last' = NoCall
     /\ prev' = NoCall
     /\ UNCHANGED <<features, heap, query>>

\* let x = Rc::new(x); / Arc::new(x) / Box::new(x)
WrapAlloc(s, c) ==
  LET t == slots[s].ty
      v == slots[s].val
      a == Alloc(heap)
      t2 == CASE c = "rc" -> <<"Rc", t>>
              [] c = "arc" -> <<"Arc", t>>
              [] c = "box" -> <<"Box", t>>
      cell == IF c = "box" THEN <<"boxed", v>> ELSE <<"counted", 1, v>>
  IN /\ Building
     /\ slots[s] # Empty
     /\ LiveSize < MaxSize
     /\ FreeAddrs(heap) # {}
     /\ heap' = [heap EXCEPT ![a] = cell]
     /\ slots' = [slots EXCEPT ![s] = [ty |-> t2, val |-> <<c, a>>]]
     /\ last' = NoCall
     /\ prev' = NoCall
     /\ UNCHANGED <<features, query>>

\* let y = x.cheap_clone();  It builds only when x's type bears the
\* capability.
CheapCloneCall(s, d) ==
  LET t == slots[s].ty
      r == cheap_clone(t, heap, slots[s].val)
  IN /\ Using
     /\ slots[s] # Empty
     /\ FirstEmpty(d)
     /\ Bears(features, t)
     /\ NeedAlloc(heap, slots[s].val) <= Cardinality(FreeAddrs(heap))
     /\ heap' = r[1]
     /\ slots' = [slots EXCEPT ![d] = [ty |-> t, val |-> r[2]]]
     /\ last' = [Record("cheap_clone", s, d) EXCEPT !.res = r[2]]
     /\ prev' = Earlier
     /\ UNCHANGED <<features, query>>

\* drop(x);
DropSlot(s) ==
  /\ slots[s] # Empty
  /\ heap' = DropValue(heap, slots[s].val)
  /\ slots' = [slots EXCEPT ![s] = Empty]
  /\ last' = Note("drop", s)
  /\ prev' = Earlier
  /\ UNCHANGED <<features, query>>

\* *x = <literal>;  for x: Box<T>, T a primitive type.
BoxSet(s, v) ==
  /\ Using
  /\ slots[s] # Empty
  /\ slots[s].ty = <<"Box", <<v[2]>>>>
  /\ heap' = [heap EXCEPT ![slots[s].val[2]] = <<"boxed", v>>]
  /\ heap[slots[s].val[2]] # <<"boxed", v>>
  /\ last' = Note("set", s)
  /\ prev' = Earlier
  /\ UNCHANGED <<features, slots, query>>

Next ==
  \/ \E s \in Slot, v \in ProgramLits : NewLit(s, v)
  \/ \E s \in Slot : NewNone(s)
  \/ \E s \in Slot, c \in {"some", "ok", "err", "left", "right", "pin", "arr"},
        n \in 0..MaxLen : WrapInline(s, c, n)
  \/ \E s \in Slot, c \in {"rc", "arc", "box"} : WrapAlloc(s, c)
  \/ \E s, d \in Slot : CheapCloneCall(s, d)
  \/ \E s \in Slot : DropSlot(s)
  \/ \E s \in Slot, v \in ProgramLits : BoxSet(s, v)

Spec == Init /\ [][Next]_vars

(***************************************************************************)
(* A program whose value is of a type with a `*self` override: any value   *)
(* of any type the macros list, or an array of such values, under any      *)
(* feature set, beside an unrelated Rc<u8> or nothing.                     *)
(***************************************************************************)
AllLits == UNION {{Lit(n, x) : x \in LitValues(n)} : n \in PrimTypes \cup NetTypes}

CopyValues ==
  {[ty |-> <<l[2]>>, val |-> l] : l \in AllLits}
    \cup {[ty |-> <<"Array", <<l[2]>>, n>>, val |-> <<"arr", [i \in 1..n |-> l]>>] :
            l \in AllLits, n \in 0..MaxLen}

PrimInit ==
  /\ features \in SUBSET Features
  /\ \E x \in CopyValues, other \in BOOLEAN :
       /\ slots = [s \in Slot |->
                     IF s = 1 THEN x
                     ELSE IF s = 2 /\ other
                     THEN [ty |-> <<"Rc", <<"u8">>>>, val |-> <<"rc", 1>>]
                     ELSE Empty]
       /\ heap = [a \in Addr |->
                    IF a = 1 /\ other THEN <<"counted", 1, Lit("u8", "0")>> ELSE Free]
  /\ last = NoCall
  /\ prev = NoCall
  /\ query = Nil

PrimNext ==
  \/ \E s, d \in Slot : CheapCloneCall(s, d)
  \/ \E s \in Slot : DropSlot(s)

PrimSpec == PrimInit /\ [][PrimNext]_vars

(***************************************************************************)
(* Impl resolution for one type: the build asks whether the type bears     *)
(* the capability, under each set of enabled features.                     *)
(***************************************************************************)
AllLeaves == {<<n>> : n \in PrimTypes \cup NetTypes} \cup UndeclaredLeaves
SampleLeaves == {<<"u8">>, <<"f64">>, <<"Ipv4Addr">>, VecTy, UnitTy, CustomTy}
SecondArgs == {<<"u8">>, VecTy}

Nest(S) ==
  {<<c, t>> : c \in {"Rc", "Arc", "Box", "Pin", "Option"}, t \in S}
    \cup {<<"Array", t, n>> : t \in S, n \in 0..MaxLen}
    \cup {<<c, t, o>> : c \in {"Result", "Either"}, t \in S, o \in SecondArgs}
    \cup {<<c, o, t>> : c \in {"Result", "Either"}, t \in S, o \in SecondArgs}

RECURSIVE TypesUpTo(_)
TypesUpTo(d) ==
  IF d = 0 THEN SampleLeaves
  ELSE TypesUpTo(d - 1) \cup Nest(TypesUpTo(d - 1))

QueryTypes == AllLeaves \cup TypesUpTo(TypeDepth)

TypeInit ==
  /\ features \in SUBSET Features
  /\ heap = [a \in Addr |-> Free]
  /\ slots = [s \in Slot |-> Empty]
  /\ last = NoCall
  /\ prev = NoCall
  /\ query \in {[ty |-> t, resolved |-> FALSE, bears |-> FALSE] : t \in QueryTypes}

\* The build decides `T: CheapClone`: a use of cheap_clone on a T that does
\* not bear the capability is rejected.
Resolve ==
  /\ ~query.resolved
  /\ query' = [query EXCEPT !.resolved = TRUE, !.bears = Bears(features, query.ty)]
  /\ UNCHANGED <<features, heap, slots, last, prev>>

TypeNext == Resolve

TypeSpec == TypeInit /\ [][TypeNext]_vars

(***************************************************************************)
(* The vocabulary of the properties.                                       *)
(***************************************************************************)
Variants == {"some", "ok", "err", "left", "right", "pin"}
Live(h, v) ==
  \/ v[1] = "box" /\ h[v[2]][1] = "boxed"
  \/ v[1] \in {"rc", "arc"} /\ h[v[2]][1] = "counted"
Pointee(h, v) == IF v[1] = "box" THEN h[v[2]][2] ELSE h[v[2]][3]

RECURSIVE NativeEq(_, _, _)
\* x == y, the equality of the values' type (PartialEq::eq): IEEE equality
\* on floats, where NaN equals nothing and the two zeros are equal; equality
\* of what is pointed to for Box, Rc and Arc; variant by variant and element
\* by element otherwise.
NativeEq(h, x, y) ==
  CASE x[1] # y[1] -> FALSE
    [] x[1] = "lit" ->
         IF x[2] \in FloatTypes
         THEN /\ x[3] # "NaN"
              /\ y[3] # "NaN"
              /\ \/ x[3] = y[3]
                 \/ {x[3], y[3]} = {"+0.0", "-0.0"}
         ELSE x = y
    [] x[1] \in {"box", "rc", "arc"} ->
         Live(h, x) /\ Live(h, y) /\ NativeEq(h, Pointee(h, x), Pointee(h, y))
    [] x[1] \in Variants -> NativeEq(h, x[2], y[2])
    [] x[1] = "arr" ->
         /\ Len(x[2]) = Len(y[2])
         /\ \A i \in 1..Len(x[2]) : NativeEq(h, x[2][i], y[2][i])
    [] OTHER -> x = y

RECURSIVE HasNaN(_, _)
\* Whether a floating-point NaN occurs in the value or in what it points to.
HasNaN(h, v) ==
  CASE v[1] = "lit" -> v[2] \in FloatTypes /\ v[3] = "NaN"
    [] v[1] \in {"box", "rc", "arc"} -> Live(h, v) /\ HasNaN(h, Pointee(h, v))
    [] v[1] \in Variants -> HasNaN(h, v[2])
    [] v[1] = "arr" -> \E i \in 1..Len(v[2]) : HasNaN(h, v[2][i])
    [] OTHER -> FALSE

RECURSIVE View(_, _)
\* What a value is, bit for bit, to its owner: its variants and literals, the
\* contents of the boxes it owns, and for each Rc / Arc handle the allocation
\* it refers to and what that allocation holds (not its count).
View(h, v) ==
  CASE v[1] = "box" ->
         IF Live(h, v) THEN <<"box", View(h, Pointee(h, v))>> ELSE <<"dangling">>
    [] v[1] \in {"rc", "arc"} ->
         IF Live(h, v) THEN <<v[1], v[2], View(h, Pointee(h, v))>>
         ELSE <<"dangling">>
    [] v[1] \in Variants -> <<v[1], View(h, v[2])>>
    [] v[1] = "arr" -> <<"arr", [i \in 1..Len(v[2]) |-> View(h, v[2][i])]>>
    [] OTHER -> v

RECURSIVE Counted(_, _)
\* The Rc / Arc allocations a value holds handles to, directly or inside its
\* variants and boxes.
Counted(h, v) ==
  CASE v[1] \in {"rc", "arc"} -> {v[2]}
    [] v[1] = "box" -> IF Live(h, v) THEN Counted(h, Pointee(h, v)) ELSE {}
    [] v[1] \in Variants -> Counted(h, v[2])
    [] OTHER -> {}

RECURSIVE Boxes(_, _)
\* The allocations a value owns through boxes.
Boxes(h, v) ==
  CASE v[1] = "box" ->
         {v[2]} \cup (IF Live(h, v) THEN Boxes(h, Pointee(h, v)) ELSE {})
    [] v[1] \in Variants -> Boxes(h, v[2])
    [] OTHER -> {}

RECURSIVE HasType(_, _, _)
\* Whether v is a well-formed value of type t in heap h.
HasType(h, v, t) ==
  CASE Len(t) = 1 -> v[1] = "lit" /\ v[2] = t[1]
    [] Ctor(t) = "Rc" -> v[1] = "rc" /\ Live(h, v) /\ HasType(h, Pointee(h, v), t[2])
    [] Ctor(t) = "Arc" -> v[1] = "arc" /\ Live(h, v) /\ HasType(h, Pointee(h, v), t[2])
    [] Ctor(t) = "Box" -> v[1] = "box" /\ Live(h, v) /\ HasType(h, Pointee(h, v), t[2])
    [] Ctor(t) = "Pin" -> v[1] = "pin" /\ HasType(h, v[2], t[2])
    [] Ctor(t) = "Option" ->
         v = <<"none">> \/ (v[1] = "some" /\ HasType(h, v[2], t[2]))
    [] Ctor(t) = "Result" ->
         \/ v[1] = "ok" /\ HasType(h, v[2], t[2])
         \/ v[1] = "err" /\ HasType(h, v[2], t[3])
    [] Ctor(t) = "Either" ->
         \/ v[1] = "left" /\ HasType(h, v[2], t[2])
         \/ v[1] = "right" /\ HasType(h, v[2], t[3])
    [] Ctor(t) = "Array" ->
         /\ v[1] = "arr"
         /\ Len(v[2]) = t[3]
         /\ \A i \in 1..Len(v[2]) : HasType(h, v[2][i], t[2])
    [] OTHER -> FALSE

Called == last.op = "cheap_clone"
\* The last statement was recv.cheap_clone() on a receiver of this shape.
CalledOn(tags) == Called /\ last.recv[1] \in tags

\* Every value the program holds is a well-formed value of its type.
TypeOK ==
  \A s \in Slot : slots[s] # Empty => HasType(heap, slots[s].val, slots[s].ty)

(***************************************************************************)
(* Properties.                                                             *)
(***************************************************************************)

\* C1, as stated: for every value v of every covered scalar / primitive type
\* (floats included), cheap_clone(v) == v under the type's native equality.
C1_CopyEqualsOriginal ==
  CalledOn({"lit"}) => NativeEq(heap, last.res, last.recv)

\* C1, amended: cheap_clone(v) is v bit for bit for every value of every
\* covered scalar / primitive type, and cheap_clone(v) == v under the native
\* equality for every such value except a floating-point NaN.
C1_CopyEqualsOriginalUnlessNaN ==
  CalledOn({"lit"}) =>
    /\ last.res = last.recv
    /\ ~HasNaN(heap, last.recv) => NativeEq(heap, last.res, last.recv)

\* A call on an f32 NaN has returned.
C1_Witness ==
  /\ CalledOn({"lit"})
  /\ last.recv = Lit("f32", "NaN")
  /\ slots[last.dst].val = Lit("f32", "NaN")

\* C2: cheap_clone on an Rc / Arc handle returns a handle to the same
\* allocation, leaves that allocation's contents alone, raises its count by
\* exactly one, and allocates nothing.
C2_SameAllocationCountPlusOne ==
  CalledOn({"rc", "arc"}) =>
    LET a == last.recv[2]
    IN /\ last.res = last.recv
       /\ last.pre[a][1] = "counted"
       /\ heap[a] = <<"counted", last.pre[a][2] + 1, last.pre[a][3]>>
       /\ \A b \in Addr \ {a} : heap[b] = last.pre[b]

\* A call on a handle whose allocation earlier calls had already shared has
\* returned.
C2_Witness ==
  /\ CalledOn({"rc", "arc"})
  /\ last.pre[last.recv[2]][2] >= 2
  /\ heap[last.recv[2]][2] = last.pre[last.recv[2]][2] + 1

\* What a call on a Box leaves behind.
BoxCallPost ==
  CalledOn({"box"}) =>
    /\ last.res[1] = "box"
    /\ last.res[2] # last.recv[2]
    /\ last.pre[last.res[2]] = Free
    /\ Live(heap, last.res)
    /\ Live(heap, last.recv)
    /\ Boxes(heap, last.res) \cap Boxes(heap, last.recv) = {}
    /\ View(heap, last.res) = View(last.pre, last.recv)
    /\ ~HasNaN(last.pre, last.recv) => NativeEq(heap, last.res, last.recv)

\* A statement on one variable (a write through its box, its drop) leaves
\* what every other box-owning variable holds as it was.
OthersUntouched ==
  \A s \in Slot :
    (/\ slots[s] # Empty
     /\ slots'[s] = slots[s]
     /\ Boxes(heap, slots[s].val) # {}
     /\ ~(last'.op = "set" /\ last'.src = s))
      => View(heap', slots'[s].val) = View(heap, slots[s].val)

Wrapped == {"none", "some", "ok", "err", "left", "right"}

\* C4, as stated: cheap_clone on an Option / Result / Either keeps the
\* variant, and the value held equals (==) the one the receiver holds.
C4_VariantAndValueEqual ==
  CalledOn(Wrapped) =>
    /\ last.res[1] = last.recv[1]
    /\ last.recv[1] # "none" => NativeEq(heap, last.res[2], last.recv[2])

\* C4, amended: cheap_clone on an Option / Result / Either keeps the variant,
\* the value held is the receiver's bit for bit (a box it owns: a new box of
\* the same contents), and equals it (==) unless it holds a floating-point
\* NaN.
C4_VariantAndValueEqualUnlessNaN ==
  CalledOn(Wrapped) =>
    /\ last.res[1] = last.recv[1]
    /\ Len(last.res) = Len(last.recv)
    /\ View(heap, last.res) = View(last.pre, last.recv)
    /\ (last.recv[1] # "none" /\ ~HasNaN(last.pre, last.recv))
         => NativeEq(heap, last.res[2], last.recv[2])

\* A call on a Some holding a NaN has returned a Some.
C4_Witness ==
  /\ CalledOn({"some"})
  /\ HasNaN(last.pre, last.recv)
  /\ slots[last.dst].val[1] = "some"

\* The last two statements were calls on the same variable.
CalledTwice == Called /\ prev.op = "cheap_clone" /\ prev.src = last.src

\* C5, as stated: the results of two successive calls on the same original
\* are equal (==) to each other.
C5_TwoResultsEqual ==
  CalledTwice => NativeEq(heap, prev.res, last.res)

\* C5, amended: the results of two successive calls on the same original are
\* the same bit for bit (handles to the same allocation, boxes of the same
\* contents), and equal (==) to each other unless the original holds a
\* floating-point NaN.
C5_TwoResultsEqualUnlessNaN ==
  CalledTwice =>
    /\ View(heap, prev.res) = View(heap, last.res)
    /\ ~HasNaN(heap, last.recv) => NativeEq(heap, prev.res, last.res)

\* Two successive calls on one Rc / Arc handle, the second at a count one
\* higher than the first.
C5_Witness ==
  /\ CalledTwice
  /\ last.recv[1] \in {"rc", "arc"}
  /\ heap[last.recv[2]][1] = "counted"
  /\ heap[last.recv[2]][2] = 3
  /\ last.pre[last.recv[2]][2] = 2

\* C6: a call returns a value of the receiver's type in a fresh variable and
\* changes nothing that existed before it, the receiver included, except the
\* count of the Rc / Arc allocations the receiver holds handles to.
C6_OnlyCountsChange ==
  Called =>
    /\ last.preSlots[last.dst] = Empty
    /\ \A s \in Slot \ {last.dst} : slots[s] = last.preSlots[s]
    /\ slots[last.dst] = [ty |-> last.ty, val |-> last.res]
    /\ HasType(heap, last.res, last.ty)
    /\ \A a \in Addr :
         last.pre[a] # Free =>
           \/ heap[a] = last.pre[a]
           \/ /\ a \in Counted(last.pre, last.recv)
              /\ last.pre[a][1] = "counted"
              /\ heap[a][1] = "counted"
              /\ heap[a][3] = last.pre[a][3]

\* A call on a value that holds an Rc / Arc handle inside a wrapper or a box
\* has raised the count, with a third variable looking on.
C6_Witness ==
  /\ Called
  /\ last.recv[1] \notin {"rc", "arc"}
  /\ \E a \in Counted(last.pre, last.recv) : heap[a][2] = last.pre[a][2] + 1
  /\ \E s \in Slot \ {last.src, last.dst} : slots[s] # Empty

Resolved == query.resolved

\* C7, as stated: Option<T> bears the capability iff T does, Result<T, E> and
\* Either<L, R> iff both parameters do, Box<T> and Pin<T> iff T does, and
\* Rc<T> and Arc<T> for every T.
C7_PropagationExact ==
  Resolved =>
    LET t == query.ty
        f == features
        b == query.bears
    IN /\ Ctor(t) \in {"Option", "Box", "Pin"} => (b <=> Bears(f, t[2]))
       /\ Ctor(t) \in {"Result", "Either"} =>
            (b <=> (Bears(f, t[2]) /\ Bears(f, t[3])))
       /\ Ctor(t) \in {"Rc", "Arc"} => b

\* The feature that gates a wrapper's impl; Option and Result have none.
Gate(t) ==
  CASE Ctor(t) \in {"Rc", "Arc", "Box"} -> {"alloc"}
    [] Ctor(t) = "Pin" -> {"std"}
    [] Ctor(t) = "Either" -> {"either"}
    [] OTHER -> {}

\* C7, amended: in a build that enables the feature gating the wrapper's impl
\* (alloc for Rc, Arc and Box, std for Pin, either for Either; none for Option
\* and Result) the propagation is as stated; in a build that does not, the
\* wrapper does not bear the capability.
C7_PropagationExactWhenEnabled ==
  Resolved =>
    LET t == query.ty
        f == features
        b == query.bears
        on == Gate(t) \subseteq f
    IN /\ Ctor(t) \in {"Option", "Box", "Pin"} => (b <=> (on /\ Bears(f, t[2])))
       /\ Ctor(t) \in {"Result", "Either"} =>
            (b <=> (on /\ Bears(f, t[2]) /\ Bears(f, t[3])))
       /\ Ctor(t) \in {"Rc", "Arc"} => (b <=> on)

\* Rc<Vec> resolved in a build with alloc: it bears the capability though Vec
\* does not.
C7_Witness ==
  /\ Resolved
  /\ query.ty = <<"Rc", VecTy>>
  /\ "alloc" \in features
  /\ query.bears
  /\ ~Bears(features, VecTy)

RECURSIVE Undeclared(_)
\* A type the crate declares no impl for, or a wrapper whose impl is
\* conditional on such a type.
Undeclared(t) ==
  \/ t \in UndeclaredLeaves
  \/ Ctor(t) \in {"Option", "Box", "Pin"} /\ Undeclared(t[2])
  \/ Ctor(t) \in {"Result", "Either"} /\ (Undeclared(t[2]) \/ Undeclared(t[3]))

\* C8: a type without a declared impl (Vec, String and other Clone types
\* included), and any wrapper whose impl is conditional on such a type, does
\* not bear the capability: a use of cheap_clone on it does not build.
C8_UndeclaredRejected ==
  Resolved => (Undeclared(query.ty) => ~query.bears)

\* Result<u8, Vec> resolved: rejected, though it is Clone and u8 bears the
\* capability.
C8_Witness ==
  /\ Resolved
  /\ query.ty = <<"Result", <<"u8">>, VecTy>>
  /\ IsClone(query.ty)
  /\ Bears(features, <<"u8">>)
  /\ ~query.bears

\* C9, as stated: [T; N] bears the capability whenever T is duplicable
\* (Clone), and bears it exactly when T bears it.  Stated of the build with
\* every feature enabled, where the most element types bear the capability.
C9_ArrayFollowsElements ==
  (Resolved /\ Ctor(query.ty) = "Array" /\ features = Features) =>
    /\ IsClone(query.ty[2]) => query.bears
    /\ query.bears <=> Bears(features, query.ty[2])

\* C9, amended: [T; N] bears the capability, for every N and in every build,
\* exactly when T is Copy, whether or not T bears the capability; so it does
\* for every covered scalar / primitive T.
C9_ArrayFollowsCopy ==
  (Resolved /\ Ctor(query.ty) = "Array") =>
    /\ query.bears <=> IsCopy(query.ty[2])
    /\ Ctor(query.ty[2]) \in PrimTypes \cup NetTypes => query.bears

\* [(); N] with N >= 1 resolved: it bears the capability, its element type
\* does not.
C9_Witness ==
  /\ Resolved
  /\ Ctor(query.ty) = "Array"
  /\ query.ty[2] = UnitTy
  /\ query.ty[3] >= 1
  /\ query.bears
  /\ ~Bears(features, UnitTy)

\* C10: on every value of a type with a `*self` override, the override
\* returns what the default (self.clone()) returns and leaves the heap and
\* every variable as the default leaves them.
C10_OverrideEqualsDefault ==
  (Called /\ HasCopyOverride(last.ty)) =>
    LET r == default_cheap_clone(last.pre, last.recv)
    IN /\ last.res = r[2]
       /\ heap = r[1]
       /\ slots = [last.preSlots EXCEPT ![last.dst] = [ty |-> last.ty, val |-> r[2]]]

\* A call on a non-empty array, beside a live Rc, has returned.
C10_Witness ==
  /\ Called
  /\ Ctor(last.ty) = "Array"
  /\ Len(last.recv[2]) >= 1
  /\ \E a \in Addr : heap[a] # Free

====
